---- MODULE Spec2Model ----
(***************************************************************************)
(* Model of the SQL pipeline of obe_ai_bi: the SQL policy guard            *)
(* (app/pipeline/guardrails/sql_policy.py), the cube registry              *)
(* (app/core/cube_registry.py), the date resolver                          *)
(* (app/services/date_resolver.py), the warehouse runner                   *)
(* (app/db/safe_sql_runner.py, app/services/vanna_wrapper.py), the         *)
(* process-wide cache (app/services/cache.py), the context resolver and    *)
(* intent classifier (app/pipeline/agents) and the orchestrator's          *)
(* run_pipeline (app/pipeline/orchestrator.py).                            *)
(*                                                                         *)
(* SQL text is modelled by its parse: the statement kind, a trailing       *)
(* second statement, a CTE body, the table, grouping, aggregates, limit,   *)
(* ordering and the where-clause as a list of predicates.  The text of the *)
(* where-clause is rendered character by character, because the partition  *)
(* rules of the guard are substring tests on that text.                    *)
(***************************************************************************)
EXTENDS Integers, Sequences, FiniteSets, TLC

VARIABLES
    gIn,         \* guard harness: the SQL handed to validate_and_fix
    gStage,      \* guard harness: "input", "once" or "twice"
    gRes,        \* guard harness: result of validate_and_fix(gIn)
    gRes2,       \* guard harness: result of validate_and_fix on its own output
    pc,          \* run_pipeline: the step the request is at
    today,       \* the wall clock's date, as a day number
    anchor,      \* MAX(ds) of the anchor table, as a day number
    intent,      \* intent_result["intent_type"]
    dateCtx,     \* date_context
    attempts,    \* attempts
    prompt,      \* current_prompt
    cleanSql,    \* clean_sql
    safeSql,     \* safe_sql
    finalSql,    \* final_sql
    lastError,   \* last_error
    response,    \* the value run_pipeline returns
    genCalls,    \* number of SQLAgent.generate calls
    genValid,    \* every generation so far returned SQL the guard accepts
    guardCalls,  \* number of SQLGuard.validate_and_fix calls
    guardIn,     \* the latest validate_and_fix call: its caller and input
    guardRaised, \* some validate_and_fix call of this request raised
    execCalls,   \* number of statements sent to the warehouse
    whFails,     \* number of those the warehouse failed
    sentSql,     \* the latest statement sent to the warehouse
    sessionOpen, \* the orchestrator's session self.db is open
    hasHistory,  \* raw_history is non-empty
    resolution,  \* the reply of the context resolver's model call
    finalMsg,    \* final_msg: the raw message or the resolver's rewrite
    intentMsg,   \* the message IntentAgent.classify was given
    promptMsg,   \* the message the initial prompt was built from
    vizMsg,      \* the message VisualizationAgent.determine_format was given
    intentFault, \* the classification call raised or its output did not parse
    lastGen,     \* the latest output of the generation port
    vizFailed,   \* visualization selection failed in this request
    auditFaulty, \* the audit store may fail a commit in this behaviour
    auditFails,  \* number of audit commits that failed
    fault,       \* the step before the try whose exception left run_pipeline
    cNow,        \* cache: time.time(), in seconds
    cStore,      \* cache: _store.get("latest_ds")
    cReq,        \* cache: the get_latest_ds call of each request
    vIn,         \* visualization: the arguments of determine_format
    vStage,      \* visualization: "input", "success" or "raised"
    vRes,        \* visualization: viz_result
    vData        \* visualization: the rows of safe_data

guardVars == <<gIn, gStage, gRes, gRes2>>

pipeVars ==
    <<pc, today, anchor, intent, dateCtx, attempts, prompt, cleanSql, safeSql,
      finalSql, lastError, response, genCalls, genValid, guardCalls, guardIn,
      guardRaised, execCalls, whFails, sentSql, sessionOpen>>

reqVars ==
    <<hasHistory, resolution, finalMsg, intentMsg, promptMsg, vizMsg,
      intentFault, lastGen, vizFailed, auditFaulty, auditFails, fault>>

cacheVars == <<cNow, cStore, cReq>>

vizVars == <<vIn, vStage, vRes, vData>>

vars == <<guardVars, pipeVars, reqVars, cacheVars, vizVars>>

----------------------------------------------------------------------------
(* Bounds *)

MaxPreds == 2
MaxLag == 1
MaxTime == 5400
MaxCols == 3
TickStep == 1800

----------------------------------------------------------------------------
(* Text, as sequences of characters *)

S_where == <<"w", "h", "e", "r", "e", " ">>
S_and == <<" ", "a", "n", "d", " ">>
S_between == <<" ", "b", "e", "t", "w", "e", "e", "n", " ">>
S_eq == <<" ", "=", " ">>
S_ge == <<" ", ">", "=", " ">>
S_quote == <<"'">>
S_dash == <<"-">>
S_ds == <<"d", "s">>
S_ds_sp == <<"d", "s", " ">>
S_kw_between == <<"b", "e", "t", "w", "e", "e", "n">>
S_trade_datetime == <<"t", "r", "a", "d", "e", "_", "d", "a", "t", "e", "t", "i", "m", "e">>
S_duration_seconds == <<"d", "u", "r", "a", "t", "i", "o", "n", "_", "s", "e", "c", "o", "n", "d", "s">>
S_lit == <<"a">>
S_ph_latest_ds == <<"{", "l", "a", "t", "e", "s", "t", "_", "d", "s", "}">>
S_ph_latest_ds_dash == <<"{", "l", "a", "t", "e", "s", "t", "_", "d", "s", "_", "d", "a", "s", "h", "}">>
S_ph_today_iso == <<"{", "t", "o", "d", "a", "y", "_", "i", "s", "o", "}">>
S_ph_start_30d == <<"{", "s", "t", "a", "r", "t", "_", "3", "0", "d", "}">>
S_current_date == <<"c", "u", "r", "r", "e", "n", "t", "_", "d", "a", "t", "e">>
S_user_profile_360 == <<"u", "s", "e", "r", "_", "p", "r", "o", "f", "i", "l", "e", "_", "3", "6", "0">>
S_dws_all_trades_di == <<"d", "w", "s", "_", "a", "l", "l", "_", "t", "r", "a", "d", "e", "s", "_", "d", "i">>
S_tmp_export == <<"t", "m", "p", "_", "e", "x", "p", "o", "r", "t">>
S_suffix_df == <<"_", "d", "f">>
S_suffix_di == <<"_", "d", "i">>
S_blacklist == <<"b", "l", "a", "c", "k", "l", "i", "s", "t">>

DigitChars == <<"0", "1", "2", "3", "4", "5", "6", "7", "8", "9">>

\* Python's `needle in hay`
Contains(hay, needle) ==
    \E i \in 1..(Len(hay) - Len(needle) + 1) :
        SubSeq(hay, i, i + Len(needle) - 1) = needle

\* Python's str.endswith
EndsWith(s, suffix) ==
    /\ Len(s) >= Len(suffix)
    /\ SubSeq(s, Len(s) - Len(suffix) + 1, Len(s)) = suffix

\* strftime of a day number: two digits ("%Y%m%d") or dashed ("%Y-%m-%d")
DayText(d, dashed) ==
    IF dashed
    THEN <<DigitChars[(d \div 10) + 1]>> \o S_dash \o <<DigitChars[(d % 10) + 1]>>
    ELSE <<DigitChars[(d \div 10) + 1], DigitChars[(d % 10) + 1]>>

----------------------------------------------------------------------------
(* SQL values, predicates and statements *)

\* a value in a predicate: a literal, a placeholder token, the clock
\* function CURRENT_DATE, or (after substitution) a concrete date
Val(k) == [k |-> k, d |-> 0]
DateVal(d, dashed) == [k |-> IF dashed THEN "date_dash" ELSE "date", d |-> d]

Pred(col, op, v1, v2) == [col |-> col, op |-> op, v1 |-> v1, v2 |-> v2]

P_ds_eq_latest == Pred("ds", "eq", Val("ph_latest_ds"), Val("none"))
P_ds_between == Pred("ds", "between", Val("ph_start_30d"), Val("ph_latest_ds"))
P_time_between == Pred("trade_datetime", "between", Val("lit"), Val("lit"))
P_time_ge_clock == Pred("trade_datetime", "ge", Val("clock"), Val("none"))
P_time_ge_latest == Pred("trade_datetime", "ge", Val("ph_latest_ds_dash"), Val("none"))
P_duration_ge == Pred("duration_seconds", "ge", Val("lit"), Val("none"))

Preds ==
    {P_ds_eq_latest, P_ds_between, P_time_between, P_time_ge_clock,
     P_time_ge_latest, P_duration_ge}

Wheres == UNION {[1..n -> Preds] : n \in 0..MaxPreds}

TableNames == {"user_profile_360", "dws_all_trades_di", "tmp_export"}

TableText(t) ==
    CASE t = "user_profile_360" -> S_user_profile_360
      [] t = "dws_all_trades_di" -> S_dws_all_trades_di
      [] OTHER -> S_tmp_export

\* kind  : class of the first statement as sqlglot parses it
\*         ("select", "insert" for DML/DDL, "command" for GRANT/CALL/...,
\*          "malformed" for text that does not parse)
\* rest  : a second statement after ';' ("none" or "drop")
\* cte   : body of a WITH clause in front of the select
\*         ("none", "delete" for a data-modifying CTE, "command")
\* agg   : where an aggregate function or GROUP BY occurs besides the
\*         outer GROUP BY ("none", "outer" select list, "nested" subquery)
\* limit : 0 when the outer query has no LIMIT
Sql(kind, rest, cte, table, group, agg, limit, order, where) ==
    [kind |-> kind, rest |-> rest, cte |-> cte, table |-> table,
     group |-> group, agg |-> agg, limit |-> limit, order |-> order,
     where |-> where]

NoSql == Sql("none", "none", "none", "tmp_export", FALSE, "none", 0, "none", <<>>)

SelectInputs ==
    {Sql("select", rest, cte, table, group, agg, limit, order, where) :
        rest \in {"none", "drop"}, cte \in {"none", "delete", "command"},
        table \in TableNames, group \in BOOLEAN,
        agg \in {"none", "outer", "nested"}, limit \in {0, 10},
        order \in {"none", "asc", "desc"}, where \in Wheres}

OtherInputs ==
    {Sql(kind, "none", "none", "tmp_export", FALSE, "none", 0, "none", <<>>) :
        kind \in {"insert", "command", "malformed"}}

GuardInputs == SelectInputs \cup OtherInputs

----------------------------------------------------------------------------
(* Rendering of the where-clause: where_clause.sql().lower() *)

ColText(col) ==
    CASE col = "ds" -> S_ds
      [] col = "trade_datetime" -> S_trade_datetime
      [] OTHER -> S_duration_seconds

Quoted(s) == S_quote \o s \o S_quote

ValText(v) ==
    CASE v.k = "lit" -> Quoted(S_lit)
      [] v.k = "ph_latest_ds" -> Quoted(S_ph_latest_ds)
      [] v.k = "ph_latest_ds_dash" -> Quoted(S_ph_latest_ds_dash)
      [] v.k = "ph_today_iso" -> Quoted(S_ph_today_iso)
      [] v.k = "ph_start_30d" -> Quoted(S_ph_start_30d)
      [] v.k = "clock" -> S_current_date
      [] v.k = "date" -> Quoted(DayText(v.d, FALSE))
      [] v.k = "date_dash" -> Quoted(DayText(v.d, TRUE))
      [] OTHER -> <<>>

PredText(p) ==
    CASE p.op = "eq" -> ColText(p.col) \o S_eq \o ValText(p.v1)
      [] p.op = "ge" -> ColText(p.col) \o S_ge \o ValText(p.v1)
      [] OTHER -> ColText(p.col) \o S_between \o ValText(p.v1)
                      \o S_and \o ValText(p.v2)

RECURSIVE ConjText(_)
ConjText(where) ==
    IF Len(where) = 1 THEN PredText(where[1])
    ELSE PredText(where[1]) \o S_and \o ConjText(Tail(where))

\* where_sql = where_clause.sql().lower() if where_clause else ""
WhereSql(where) == IF where = <<>> THEN <<>> ELSE S_where \o ConjText(where)

----------------------------------------------------------------------------
(* Cube registry *)

RegisteredTables == {"user_profile_360", "dws_all_trades_di"}

\* truth value of a Python string used as a condition
Truthy(s) == Len(s) > 0

\* kind = "di"; if name.endswith("_df") or "user_profile_360" or
\* "blacklist" in name: kind = "df"; elif name.endswith("_di"): kind = "di"
InferKind(name) ==
    IF EndsWith(name, S_suffix_df) \/ Truthy(S_user_profile_360)
           \/ Contains(name, S_blacklist)
    THEN "df"
    ELSE IF EndsWith(name, S_suffix_di) THEN "di" ELSE "di"

\* CubeRegistry.get_cube(table).kind, "none" for an unknown table
CubeKind(t) == IF t \in RegisteredTables THEN InferKind(TableText(t)) ELSE "none"

----------------------------------------------------------------------------
(* SQLGuard *)

DefaultLimit == 100

Accept(sql) == [ok |-> TRUE, reason |-> "none", sql |-> sql]
Reject(reason) == [ok |-> FALSE, reason |-> reason, sql |-> NoSql]
NoResult == [ok |-> FALSE, reason |-> "not_called", sql |-> NoSql]

\* re.sub of NOW()/CURRENT_DATE/CURRENT_TIMESTAMP by '{today_iso}'
PreprocessVal(v) == IF v.k = "clock" THEN Val("ph_today_iso") ELSE v

PreprocessSql(sql) ==
    [sql EXCEPT !.where =
        [i \in 1..Len(sql.where) |->
            [sql.where[i] EXCEPT !.v1 = PreprocessVal(@), !.v2 = PreprocessVal(@)]]]

\* sqlglot.parse_one: the first statement of the text; later statements are
\* dropped from the tree
ParseOne(sql) == [sql EXCEPT !.rest = "none"]

HasLimit(parsed) == parsed.limit # 0
HasGroupBy(parsed) == parsed.group
HasDescOrder(parsed) == parsed.order = "desc"

\* the walk: an AggFunc or Group node anywhere in the tree
HasAggregation(parsed) == parsed.group \/ parsed.agg # "none"

\* the walk: an exp.Command node anywhere in the tree
HasCommandNode(parsed) == parsed.cte = "command"

\* variant of SmartLimit: the strip branch is taken for every query with a
\* LIMIT, grouped or not
SmartLimit_AnyLimit(parsed) ==
    IF HasLimit(parsed)
    THEN IF ~HasDescOrder(parsed) THEN [parsed EXCEPT !.limit = 0] ELSE parsed
    ELSE IF ~HasAggregation(parsed) /\ ~HasLimit(parsed)
         THEN [parsed EXCEPT !.limit = DefaultLimit]
         ELSE parsed

\* RULE 2: smart limit enforcer
SmartLimit(parsed) ==
    IF HasGroupBy(parsed) /\ HasLimit(parsed)
    THEN IF ~HasDescOrder(parsed) THEN [parsed EXCEPT !.limit = 0] ELSE parsed
    ELSE IF ~HasAggregation(parsed) /\ ~HasLimit(parsed)
         THEN [parsed EXCEPT !.limit = DefaultLimit]
         ELSE parsed

\* variant of SnapshotViolation: any mention of the partition column
SnapshotViolation_AnyDs(whereSql) == Contains(whereSql, S_ds_sp)

\* RULE 3A: snapshot table
SnapshotViolation(whereSql) ==
    Contains(whereSql, S_kw_between) /\ Contains(whereSql, S_ds_sp)

\* RULE 3B: incremental table
IncrementalViolation(whereSql) == ~Contains(whereSql, S_ds)

PartitionViolation(parsed) ==
    LET kind == CubeKind(parsed.table)
        whereSql == WhereSql(parsed.where)
    IN  IF kind = "df" /\ SnapshotViolation(whereSql) THEN "snapshot_between"
        ELSE IF kind = "di" /\ IncrementalViolation(whereSql) THEN "incremental_no_ds"
        ELSE "none"

ValidateAndFix(sql) ==
    LET pre == PreprocessSql(sql)
    IN  IF pre.kind = "malformed" THEN Reject("invalid_syntax")
        ELSE LET parsed == ParseOne(pre)
             IN  IF parsed.kind # "select" THEN Reject("only_select")
                 ELSE IF HasCommandNode(parsed) THEN Reject("system_command")
                 ELSE LET fixed == SmartLimit(parsed)
                          viol == PartitionViolation(fixed)
                      IN  IF viol # "none" THEN Reject(viol) ELSE Accept(fixed)

----------------------------------------------------------------------------
(* Date resolver *)

Days == 40..41

NoCtx == [latest_ds |-> 0, today_iso |-> 0, start_30d |-> 0]

\* get_latest_ds: the cached or probed partition key, or yesterday by the
\* wall clock when the probe fails
GetLatestDs(probeOk, anchorDay, now) == IF probeOk THEN anchorDay ELSE now - 1

\* get_date_context: latest_ds and latest_ds_dash are two renderings of the
\* same day; today_iso is datetime.now()
GetDateContext(latest, now) ==
    [latest_ds |-> latest, today_iso |-> now, start_30d |-> latest - 29]

----------------------------------------------------------------------------
(* The process-wide cache and get_latest_ds, one call per request *)

\* cache.set("latest_ds", new_ds, ttl_seconds=3600)
CacheTtl == 3600

Requests == {"a", "b"}

NoDs == [text |-> <<>>, src |-> "none"]

\* str(row[0]) of SELECT MAX(ds)
ProbeValue(anchorDay) == [text |-> DayText(anchorDay, FALSE), src |-> "probe"]

\* (datetime.now() - timedelta(days=1)).strftime("%Y%m%d")
Fallback(now) == [text |-> DayText(now - 1, FALSE), src |-> "clock"]

\* _store.get(key): None, or the pair (value, expiry)
NoEntry == [present |-> FALSE, value |-> NoDs, expiry |-> 0]
Entry(value, expiry) == [present |-> TRUE, value |-> value, expiry |-> expiry]

\* variant of CacheSet: the value is dropped instead of stored
CacheSet_Drop(value, ttl, now) == NoEntry

\* InMemoryCache.set: expiry = time.time() + ttl_seconds
CacheSet(value, ttl, now) == Entry(value, now + ttl)

\* variant of Expired: an entry is served until the clock has passed its
\* expiry by a further ttl
Expired_Late(entry, now) == now > entry.expiry + CacheTtl

\* InMemoryCache.get: time.time() > expiry
Expired(entry, now) == now > entry.expiry

\* one get_latest_ds call: where it is, the pair cache.get read, new_ds, the
\* value returned, how it was obtained, and the probes it issued
NoCall ==
    [pc |-> "idle", data |-> NoEntry, newDs |-> NoDs, ret |-> NoDs,
     how |-> "none", probes |-> 0]

CacheIdle ==
    /\ cNow = 0
    /\ cStore = NoEntry
    /\ cReq = [r \in Requests |-> NoCall]

----------------------------------------------------------------------------
(* Orchestrator data *)

MaxRetries == 2

\* _apply_replacements on one value
ReplaceVal(v, ctx) ==
    CASE v.k = "ph_latest_ds" -> DateVal(ctx.latest_ds, FALSE)
      [] v.k = "ph_latest_ds_dash" -> DateVal(ctx.latest_ds, TRUE)
      [] v.k = "ph_today_iso" -> DateVal(ctx.today_iso, TRUE)
      [] v.k = "ph_start_30d" -> DateVal(ctx.start_30d, FALSE)
      [] OTHER -> v

\* _apply_replacements
ApplyReplacements(sql, ctx) ==
    [sql EXCEPT !.where =
        [i \in 1..Len(sql.where) |->
            [sql.where[i] EXCEPT !.v1 = ReplaceVal(@, ctx),
                                 !.v2 = ReplaceVal(@, ctx)]]]

\* what the generation port can return
Q_latest ==
    Sql("select", "none", "none", "user_profile_360", FALSE, "none", 0, "none",
        <<P_ds_eq_latest>>)
Q_clock ==
    Sql("select", "none", "none", "dws_all_trades_di", FALSE, "none", 0, "none",
        <<P_time_ge_clock>>)
Q_range ==
    Sql("select", "none", "none", "user_profile_360", TRUE, "outer", 10, "asc",
        <<P_ds_between>>)
Q_trend ==
    Sql("select", "none", "none", "tmp_export", TRUE, "outer", 10, "asc",
        <<P_time_ge_latest>>)
Q_topn ==
    Sql("select", "none", "none", "dws_all_trades_di", TRUE, "outer", 10, "desc",
        <<P_ds_eq_latest, P_time_ge_clock>>)
Q_mixed ==
    Sql("select", "none", "none", "user_profile_360", FALSE, "nested", 0, "none",
        <<P_ds_eq_latest, P_time_between>>)
Q_drop ==
    Sql("select", "drop", "none", "user_profile_360", FALSE, "none", 0, "none",
        <<P_ds_eq_latest>>)
Q_malformed ==
    Sql("malformed", "none", "none", "tmp_export", FALSE, "none", 0, "none", <<>>)
Q_insert ==
    Sql("insert", "none", "none", "tmp_export", FALSE, "none", 0, "none", <<>>)

PortSql ==
    {Q_latest, Q_clock, Q_range, Q_trend, Q_topn, Q_mixed, Q_drop, Q_malformed,
     Q_insert}

\* generated text that is not SQL at all
ProseText == [NoSql EXCEPT !.kind = "prose"]

GenOutputs ==
    {[tag |-> t, sql |-> NoSql] : t \in {"raise", "intermediate"}}
        \cup {[tag |-> "prose", sql |-> ProseText]}
        \cup {[tag |-> "sql", sql |-> q] : q \in PortSql}

\* the marker "NO_SQL_GENERATED"
NoSqlGenerated == [NoSql EXCEPT !.kind = "NO_SQL_GENERATED"]

\* variant of SqlContext: the retry prompt carries clean_sql as it is
SqlContext_Raw(clean) == clean

\* sql_context = clean_sql if clean_sql else "NO_SQL_GENERATED"
SqlContext(clean) == IF clean = NoSql THEN NoSqlGenerated ELSE clean

InitialPrompt == [kind |-> "initial", failed |-> NoSql, error |-> "none"]
RetryPrompt(sql, err) == [kind |-> "retry", failed |-> sql, error |-> err]

\* the keyword arguments each _finalize call of run_pipeline passes, by the
\* message of the call; they become the keys of the response next to "type"
KwArgs(msg) ==
    CASE msg \in {"greeting", "clarification", "generated_text"} -> {"message"}
      [] msg \in {"security_block", "kept_failing", "internal_error"} -> {"message"}
      [] msg = "no_data" -> {"sql", "message", "data"}
      [] msg = "data" ->
            {"sql", "data", "visual_type", "plotly_code", "suggestions", "thought"}
      [] OTHER -> {}

NoResponse ==
    [type |-> "none", msg |-> "none", detail |-> "none", sql |-> NoSql, keys |-> {}]
Response(type, msg, detail, sql) ==
    [type |-> type, msg |-> msg, detail |-> detail, sql |-> sql,
     keys |-> KwArgs(msg)]

NoGuardCall == [by |-> "none", sql |-> NoSql]

NoGen == [tag |-> "none", sql |-> NoSql]

\* what the context resolver's model call can yield: an exception or text
\* that is not JSON ("raise"), or a JSON value that is an object or a list
NoResolution == [shape |-> "none", hasConf |-> FALSE, conf |-> 0, rq |-> "absent"]

ResolverOutputs ==
    {[shape |-> "raise", hasConf |-> FALSE, conf |-> 0, rq |-> "absent"],
     [shape |-> "list", hasConf |-> FALSE, conf |-> 0, rq |-> "absent"]}
      \cup
    {[shape |-> "dict", hasConf |-> FALSE, conf |-> 0, rq |-> "rewritten"]}
      \cup
    {[shape |-> "dict", hasConf |-> TRUE, conf |-> c, rq |-> "rewritten"] :
        c \in {6, 9}}
      \cup
    {[shape |-> "dict", hasConf |-> TRUE, conf |-> 9, rq |-> "absent"]}

\* ContextResolver.resolve: json.loads of the reply, or on any exception
\* {"rewritten_query": user_msg, "confidence": 0.0, "is_followup": False}
Resolve(out) ==
    IF out.shape = "raise"
    THEN [shape |-> "dict", hasConf |-> TRUE, conf |-> 0, rq |-> "raw"]
    ELSE out

\* the threshold 0.6 of run_pipeline, in tenths like the confidences
ConfidenceThreshold == 6

\* resolution.get("confidence", 0)
Confidence(res) == IF res.hasConf THEN res.conf ELSE 0

\* resolution.get on a list raises AttributeError; resolution["rewritten_query"]
\* on an object without that key raises KeyError
ResolutionRaises(res) ==
    \/ res.shape # "dict"
    \/ Confidence(res) > ConfidenceThreshold /\ res.rq = "absent"

\* final_msg after STEP 0
FinalMsg(res) == IF Confidence(res) > ConfidenceThreshold THEN res.rq ELSE "raw"

\* what the intent model call can yield: an exception, text that is not JSON,
\* an object without intent_type, or an object with a label
IntentOutputs ==
    {"raise", "unparsable", "no_key", "data_query", "general_chat", "ambiguous",
     "trend"}

\* variant of IntentClassify: a failed classification asks the user to clarify
IntentClassify_FailClosed(out) ==
    IF out \in {"raise", "unparsable"} THEN "ambiguous"
    ELSE IF out = "no_key" THEN "data_query" ELSE out

\* IntentAgent.classify: intent_result["intent_type"]
IntentClassify(out) ==
    IF out \in {"raise", "unparsable", "no_key"} THEN "data_query" ELSE out

PipeRestIdle ==
    /\ pc = "idle"
    /\ intent = "none"
    /\ dateCtx = NoCtx
    /\ attempts = 0
    /\ prompt = InitialPrompt
    /\ cleanSql = NoSql
    /\ safeSql = NoSql
    /\ finalSql = NoSql
    /\ lastError = "none"
    /\ response = NoResponse
    /\ genCalls = 0
    /\ genValid = TRUE
    /\ guardCalls = 0
    /\ guardIn = NoGuardCall
    /\ guardRaised = FALSE
    /\ execCalls = 0
    /\ whFails = 0
    /\ sentSql = NoSql
    /\ sessionOpen = FALSE
    /\ hasHistory = FALSE
    /\ resolution = NoResolution
    /\ finalMsg = "none"
    /\ intentMsg = "none"
    /\ promptMsg = "none"
    /\ vizMsg = "none"
    /\ intentFault = FALSE
    /\ lastGen = NoGen
    /\ vizFailed = FALSE
    /\ auditFaulty = FALSE
    /\ auditFails = 0
    /\ fault = "none"

PipeIdle ==
    /\ PipeRestIdle
    /\ today = 40
    /\ anchor = 40

----------------------------------------------------------------------------
(* VisualizationAgent.determine_format and the packaging of the rows *)

\* a result frame after _clean_data_for_plotting, by its shape: rows, and
\* the columns that are date-like (by name, dtype or first value), numeric,
\* or neither; unsortable says that sorting by the x column raises, which
\* only a column that is neither datetime nor numeric can do
Frames ==
    {[rows |-> n, dates |-> d, nums |-> m, others |-> o, unsortable |-> u] :
        n \in {1, 2, 100, 101, 5000, 5001},
        d \in 0..MaxCols, m \in 0..MaxCols, o \in 0..MaxCols, u \in BOOLEAN}

ColCount(frame) == frame.dates + frame.nums + frame.others

NoFrame == [rows |-> 0, dates |-> 0, nums |-> 0, others |-> 0, unsortable |-> FALSE]

\* what determine_format is called with, and what the generation port does
\* if it is called: its code renders, yields no figure, or the call raises
VizInputs ==
    {[frame |-> f, funnelWord |-> w, intent |-> i, aggregates |-> a, port |-> p] :
        f \in {g \in Frames : /\ ColCount(g) \in 1..MaxCols
                              /\ g.unsortable => g.others >= 1},
        w \in BOOLEAN, i \in {"data_query", "trend", "funnel"}, a \in BOOLEAN,
        p \in {"renders", "no_fig", "raise"}}

NoVizInput ==
    [frame |-> NoFrame, funnelWord |-> FALSE, intent |-> "none",
     aggregates |-> FALSE, port |-> "none"]

\* the result of determine_format: the visual type, where the chart came
\* from, the order of its x values, the port calls made, and whether the
\* call raised
VizResult(visual, chart, xOrder, calls) ==
    [visual |-> visual, chart |-> chart, xOrder |-> xOrder, portCalls |-> calls,
     raised |-> FALSE]

VizRaised ==
    [visual |-> "none", chart |-> "none", xOrder |-> "none", portCalls |-> 1,
     raised |-> TRUE]

NoVizResult ==
    [visual |-> "none", chart |-> "none", xOrder |-> "none", portCalls |-> 0,
     raised |-> FALSE]

\* variant of ForceXY: no pair of axes is ever forced
ForceXY_Never(frame) == FALSE

\* _force_xy_for_two_columns returns a pair: exactly two columns, one of
\* them a date candidate
ForceXY(frame) == ColCount(frame) = 2 /\ frame.dates >= 1

\* the KPI test: one row, exactly one numeric column, at most two columns
IsKpi(frame) == frame.rows = 1 /\ frame.nums = 1 /\ ColCount(frame) <= 2

\* the funnel branch: the port's code is rendered and returned as plotly,
\* figure or not
FunnelChart(in) ==
    IF in.port = "raise" THEN VizRaised
    ELSE VizResult("plotly", IF in.port = "renders" THEN "port" ELSE "null",
                   "unknown", 1)

\* the fallback to the port in the trend branch: a figure is returned as
\* plotly, no figure falls through to the table
PortChart(in) ==
    IF in.port = "raise" THEN VizRaised
    ELSE IF in.port = "renders" THEN VizResult("plotly", "port", "unknown", 1)
    ELSE VizResult("table", "none", "none", 1)

\* determine_format
DetermineFormat(in) ==
    IF in.frame.rows = 0 THEN VizResult("none", "none", "none", 0)
    ELSE IF IsKpi(in.frame) THEN VizResult("table", "none", "none", 0)
    ELSE IF in.intent = "funnel" \/ in.funnelWord THEN FunnelChart(in)
    ELSE IF (in.intent = "trend" \/ in.aggregates) /\ in.frame.rows > 1
         THEN IF ColCount(in.frame) < 2 THEN VizResult("table", "none", "none", 0)
              ELSE IF ForceXY(in.frame) /\ ~in.frame.unsortable
                   THEN VizResult("plotly", "deterministic", "ascending", 0)
                   ELSE PortChart(in)
    ELSE VizResult("table", "none", "none", 0)

\* the row caps of run_pipeline
TableCap == 100
ChartCap == 5000

RowCap(visual) == IF visual = "plotly" THEN ChartCap ELSE TableCap

Min(a, b) == IF a <= b THEN a ELSE b

NoRows == [from |-> 1, to |-> 0]

\* variant of HeadRows: the last k rows are kept
HeadRows_Tail(n, k) == [from |-> n - Min(n, k) + 1, to |-> n]

\* df.head(k) of a frame of n rows: the rows from the first to the k-th
HeadRows(n, k) == [from |-> 1, to |-> Min(n, k)]

VizIdle ==
    /\ vIn = NoVizInput
    /\ vStage = "idle"
    /\ vRes = NoVizResult
    /\ vData = NoRows

GuardIdle ==
    /\ gIn = NoSql
    /\ gStage = "idle"
    /\ gRes = NoResult
    /\ gRes2 = NoResult

----------------------------------------------------------------------------
(* Guard harness: validate_and_fix applied to an input, then to its output *)

InitGuard ==
    /\ gIn \in GuardInputs
    /\ gStage = "input"
    /\ gRes = NoResult
    /\ gRes2 = NoResult
    /\ PipeIdle
    /\ CacheIdle
    /\ VizIdle

GuardFirst ==
    /\ gStage = "input"
    /\ gRes' = ValidateAndFix(gIn)
    /\ gStage' = "once"
    /\ UNCHANGED <<gIn, gRes2, pipeVars, reqVars, cacheVars, vizVars>>

GuardSecond ==
    /\ gStage = "once"
    /\ gRes.ok
    /\ gRes2' = ValidateAndFix(gRes.sql)
    /\ gStage' = "twice"
    /\ UNCHANGED <<gIn, gRes, pipeVars, reqVars, cacheVars, vizVars>>

NextGuard == GuardFirst \/ GuardSecond

SpecGuard == InitGuard /\ [][NextGuard]_vars

----------------------------------------------------------------------------
(* Orchestrator.run_pipeline *)

InitPipeline(faulty) ==
    /\ GuardIdle
    /\ CacheIdle
    /\ VizIdle
    /\ pc = "start"
    /\ today \in Days
    /\ anchor \in {today - lag : lag \in 0..MaxLag}
    /\ intent = "none"
    /\ dateCtx = NoCtx
    /\ attempts = 0
    /\ prompt = InitialPrompt
    /\ cleanSql = NoSql
    /\ safeSql = NoSql
    /\ finalSql = NoSql
    /\ lastError = "none"
    /\ response = NoResponse
    /\ genCalls = 0
    /\ genValid = TRUE
    /\ guardCalls = 0
    /\ guardIn = NoGuardCall
    /\ guardRaised = FALSE
    /\ execCalls = 0
    /\ whFails = 0
    /\ sentSql = NoSql
    /\ sessionOpen = TRUE
    /\ hasHistory \in BOOLEAN
    /\ resolution = NoResolution
    /\ finalMsg = "none"
    /\ intentMsg = "none"
    /\ promptMsg = "none"
    /\ vizMsg = "none"
    /\ intentFault = FALSE
    /\ lastGen = NoGen
    /\ vizFailed = FALSE
    /\ auditFaulty = faulty
    /\ auditFails = 0
    /\ fault = "none"

\* the audit store answers every commit
Init == InitPipeline(FALSE)

\* the audit store may fail any commit
InitAudit == InitPipeline(TRUE)

\* self.db.commit(): TRUE when the commit goes through
CommitOutcomes == IF auditFaulty THEN BOOLEAN ELSE {TRUE}

\* an exception that leaves run_pipeline
Raised == Response("raised", "exception", "none", NoSql)

\* "An internal system error occurred."
InternalError == Response("error", "internal_error", "none", NoSql)

\* an exception raised before the try leaves run_pipeline; the finally
\* clause is not reached
Propagate ==
    /\ response' = Raised
    /\ pc' = "done"
    /\ UNCHANGED sessionOpen

\* run_pipeline is left from inside the try, by a return or by an exception
\* of the outer handler; finally: self.db.close()
Return(r) ==
    /\ response' = r
    /\ pc' = "done"
    /\ sessionOpen' = FALSE

\* the outer except Exception: finalize the generic error; a failing commit
\* of that finalization leaves run_pipeline as an exception.  n counts the
\* commits that failed earlier in the step.
Fatal(n) ==
    \E ok \in CommitOutcomes :
        IF ok
        THEN Return(InternalError) /\ auditFails' = auditFails + n
        ELSE Return(Raised) /\ auditFails' = auditFails + n + 1

\* return self._finalize_safe(log_entry, type, ...) outside the loop's try
Finalize(r, n) ==
    \E ok \in CommitOutcomes :
        IF ok
        THEN Return(r) /\ auditFails' = auditFails + n
        ELSE Fatal(n + 1)

\* variant of OnException: one more retry is granted than the loop admits
OnException_OneMore(err, clean, n) ==
    /\ lastError' = err
    /\ attempts' = attempts + 1
    /\ IF attempts + 1 <= MaxRetries + 1
       THEN /\ prompt' = RetryPrompt(SqlContext(clean), err)
            /\ pc' = "generate"
            /\ auditFails' = auditFails + n
            /\ UNCHANGED <<response, sessionOpen>>
       ELSE /\ Finalize(Response("error", "kept_failing", err, NoSql), n)
            /\ UNCHANGED prompt

\* the loop's except Exception as e: count the attempt, rewrite the prompt or
\* give up
OnException(err, clean, n) ==
    /\ lastError' = err
    /\ attempts' = attempts + 1
    /\ IF attempts + 1 <= MaxRetries
       THEN /\ prompt' = RetryPrompt(SqlContext(clean), err)
            /\ pc' = "generate"
            /\ auditFails' = auditFails + n
            /\ UNCHANGED <<response, sessionOpen>>
       ELSE /\ Finalize(Response("error", "kept_failing", err, NoSql), n)
            /\ UNCHANGED prompt

\* return self._finalize_safe(log_entry, type, ...) inside the loop's try: a
\* failing commit is caught by the loop's except Exception
InnerFinalize(r, clean) ==
    \E ok \in CommitOutcomes :
        IF ok
        THEN /\ Return(r)
             /\ UNCHANGED <<lastError, attempts, prompt, auditFails>>
        ELSE OnException("commit_error", clean, 1)

\* STEP 0: context resolution, then the audit row; both before the try
Receive ==
    /\ pc = "start"
    /\ \E out \in (IF hasHistory THEN ResolverOutputs ELSE {NoResolution}) :
          LET res == IF hasHistory THEN Resolve(out) ELSE NoResolution
          IN  /\ resolution' = out
              /\ IF hasHistory /\ ResolutionRaises(res)
                 THEN /\ fault' = "resolver"
                      /\ Propagate
                      /\ UNCHANGED <<finalMsg, auditFails>>
                 ELSE /\ finalMsg' = IF hasHistory THEN FinalMsg(res) ELSE "raw"
                      /\ UNCHANGED fault
                      /\ \E ok \in CommitOutcomes :
                            IF ok
                            THEN /\ pc' = "intent"
                                 /\ UNCHANGED <<response, sessionOpen, auditFails>>
                            ELSE Propagate /\ auditFails' = auditFails + 1
    /\ UNCHANGED <<guardVars, cacheVars, vizVars, today, anchor, intent, dateCtx, attempts,
                   prompt, cleanSql, safeSql, finalSql, lastError, genCalls,
                   genValid, guardCalls, guardIn, guardRaised, execCalls, whFails,
                   sentSql, hasHistory, intentMsg, promptMsg, vizMsg, intentFault,
                   lastGen, vizFailed, auditFaulty>>

\* variant of Classify: only an ambiguous request is answered without
\* generation
Classify_ChatGenerates ==
    /\ pc = "intent"
    /\ intentMsg' = finalMsg
    /\ \E out \in IntentOutputs :
          /\ intentFault' = (out \in {"raise", "unparsable"})
          /\ intent' = IntentClassify(out)
          /\ IF IntentClassify(out) = "ambiguous"
             THEN Finalize(Response("text", "clarification", "none", NoSql), 0)
             ELSE /\ pc' = "dates"
                  /\ UNCHANGED <<response, sessionOpen, auditFails>>
    /\ UNCHANGED <<guardVars, cacheVars, vizVars, today, anchor, dateCtx, attempts, prompt,
                   cleanSql, safeSql, finalSql, lastError, genCalls, genValid,
                   guardCalls, guardIn, guardRaised, execCalls, whFails, sentSql,
                   hasHistory, resolution, finalMsg, promptMsg, vizMsg, lastGen,
                   vizFailed, auditFaulty, fault>>

\* STEP 1: intent
Classify ==
    /\ pc = "intent"
    /\ intentMsg' = finalMsg
    /\ \E out \in IntentOutputs :
          /\ intentFault' = (out \in {"raise", "unparsable"})
          /\ intent' = IntentClassify(out)
          /\ IF IntentClassify(out) = "general_chat"
             THEN Finalize(Response("text", "greeting", "none", NoSql), 0)
             ELSE IF IntentClassify(out) = "ambiguous"
                  THEN Finalize(Response("text", "clarification", "none", NoSql), 0)
                  ELSE /\ pc' = "dates"
                       /\ UNCHANGED <<response, sessionOpen, auditFails>>
    /\ UNCHANGED <<guardVars, cacheVars, vizVars, today, anchor, dateCtx, attempts, prompt,
                   cleanSql, safeSql, finalSql, lastError, genCalls, genValid,
                   guardCalls, guardIn, guardRaised, execCalls, whFails, sentSql,
                   hasHistory, resolution, finalMsg, promptMsg, vizMsg, lastGen,
                   vizFailed, auditFaulty, fault>>

\* STEP 2: date context, then the initial prompt
PrepareContext ==
    /\ pc = "dates"
    /\ \E probeOk \in BOOLEAN :
          dateCtx' = GetDateContext(GetLatestDs(probeOk, anchor, today), today)
    /\ attempts' = 0
    /\ prompt' = InitialPrompt
    /\ promptMsg' = finalMsg
    /\ pc' = "generate"
    /\ UNCHANGED <<guardVars, cacheVars, vizVars, today, anchor, intent, cleanSql, safeSql,
                   finalSql, lastError, response, sessionOpen, genCalls, genValid,
                   guardCalls,
                   guardIn, guardRaised, execCalls, whFails, sentSql, hasHistory,
                   resolution, finalMsg, intentMsg, vizMsg, intentFault, lastGen,
                   vizFailed, auditFaulty, auditFails, fault>>

\* variant of StartsWithSelect: every generated text is taken for SQL
StartsWithSelect_Any(sql) == TRUE

\* re.match(r'^\s*(SELECT|WITH)\b', clean_sql): the text opens a query
StartsWithSelect(sql) == sql.kind \in {"select", "malformed"}

\* STEP 3A: generate, clean, and tell SQL from text
Generate ==
    /\ pc = "generate"
    /\ attempts <= MaxRetries
    /\ genCalls' = genCalls + 1
    /\ \E out \in GenOutputs :
          /\ lastGen' = out
          /\ genValid' = (genValid /\ out.tag = "sql" /\ StartsWithSelect(out.sql)
                             /\ ValidateAndFix(out.sql).ok)
          /\ CASE out.tag = "raise" ->
                    /\ cleanSql' = NoSql
                    /\ OnException("generation_error", NoSql, 0)
               [] out.tag = "intermediate" ->
                    /\ cleanSql' = NoSql
                    /\ OnException("intermediate_sql", NoSql, 0)
               [] OTHER ->
                    /\ cleanSql' = out.sql
                    /\ IF StartsWithSelect(out.sql)
                       THEN /\ pc' = "gate"
                            /\ UNCHANGED <<response, sessionOpen, lastError,
                                           attempts, prompt, auditFails>>
                       ELSE InnerFinalize(
                                Response("text", "generated_text", "none", out.sql),
                                out.sql)
    /\ UNCHANGED <<guardVars, cacheVars, vizVars, today, anchor, intent, dateCtx, safeSql,
                   finalSql, guardCalls, guardIn, guardRaised, execCalls, whFails,
                   sentSql, hasHistory, resolution, finalMsg, intentMsg, promptMsg,
                   vizMsg, intentFault, vizFailed, auditFaulty, fault>>

\* variant of SafetyGate: the orchestrator trusts the generated text
SafetyGate_Skip(sql) == Accept(sql)

\* safe_sql = SQLGuard.validate_and_fix(clean_sql)
SafetyGate(sql) == ValidateAndFix(sql)

\* STEP 3B: the safety gate passes
GatePass ==
    /\ pc = "gate"
    /\ SafetyGate(cleanSql).ok
    /\ guardCalls' = guardCalls + 1
    /\ guardIn' = [by |-> "orchestrator", sql |-> cleanSql]
    /\ safeSql' = SafetyGate(cleanSql).sql
    /\ pc' = "replace"
    /\ UNCHANGED <<guardVars, cacheVars, vizVars, reqVars, today, anchor, intent, dateCtx,
                   attempts, prompt, cleanSql, finalSql, lastError, response,
                   sessionOpen,
                   genCalls, genValid, guardRaised, execCalls, whFails, sentSql>>

\* variant of GateReject: the policy violation is handled like a runtime
\* failure and fed back to the generator
GateReject_Retry ==
    /\ pc = "gate"
    /\ ~SafetyGate(cleanSql).ok
    /\ guardCalls' = guardCalls + 1
    /\ guardIn' = [by |-> "orchestrator", sql |-> cleanSql]
    /\ guardRaised' = TRUE
    /\ OnException(SafetyGate(cleanSql).reason, cleanSql, 0)
    /\ UNCHANGED <<guardVars, cacheVars, vizVars, today, anchor, intent, dateCtx, cleanSql,
                   safeSql, finalSql, genCalls, genValid, execCalls, whFails,
                   sentSql, hasHistory, resolution, finalMsg, intentMsg, promptMsg,
                   vizMsg, intentFault, lastGen, vizFailed, auditFaulty, fault>>

\* STEP 3B: except SQLPolicyException: a terminal security block, finalized
\* inside the handler and so outside the loop's try
GateReject ==
    /\ pc = "gate"
    /\ ~SafetyGate(cleanSql).ok
    /\ guardCalls' = guardCalls + 1
    /\ guardIn' = [by |-> "orchestrator", sql |-> cleanSql]
    /\ guardRaised' = TRUE
    /\ Finalize(Response("error", "security_block", SafetyGate(cleanSql).reason,
                         NoSql), 0)
    /\ UNCHANGED <<guardVars, cacheVars, vizVars, today, anchor, intent, dateCtx, attempts,
                   prompt, cleanSql, safeSql, finalSql, lastError, genCalls,
                   genValid, execCalls, whFails, sentSql, hasHistory, resolution,
                   finalMsg, intentMsg, promptMsg, vizMsg, intentFault, lastGen,
                   vizFailed, auditFaulty, fault>>

\* STEP 3C: date replacements
Replace ==
    /\ pc = "replace"
    /\ finalSql' = ApplyReplacements(safeSql, dateCtx)
    /\ pc' = "execute"
    /\ UNCHANGED <<guardVars, cacheVars, vizVars, reqVars, today, anchor, intent, dateCtx,
                   attempts, prompt, cleanSql, safeSql, lastError, response,
                   sessionOpen,
                   genCalls, genValid, guardCalls, guardIn, guardRaised, execCalls,
                   whFails, sentSql>>

\* the commit after the execution, then the frame: a failing commit is caught
\* by the loop's except Exception; a None or empty frame is returned as a
\* success without data
AfterRun(df) ==
    \E ok \in CommitOutcomes :
        IF ~ok
        THEN OnException("commit_error", cleanSql, 1)
        ELSE IF df \in {"error", "empty"}
             THEN InnerFinalize(Response("success", "no_data", "none", finalSql),
                                cleanSql)
             ELSE /\ pc' = "package"
                  /\ UNCHANGED <<response, sessionOpen, lastError, attempts, prompt,
                                 auditFails>>

\* STEP 3D: vn.run_sql_async(final_sql).  SafeSQLRunner.execute validates the
\* text again and sends the validated text to the warehouse; _custom_run_sql
\* turns every exception of the runner into None.
Execute ==
    /\ pc = "execute"
    /\ guardCalls' = guardCalls + 1
    /\ guardIn' = [by |-> "runner", sql |-> finalSql]
    /\ LET checked == ValidateAndFix(finalSql)
       IN  IF ~checked.ok
           THEN /\ guardRaised' = TRUE
                /\ UNCHANGED <<execCalls, whFails, sentSql>>
                /\ AfterRun("error")
           ELSE /\ UNCHANGED guardRaised
                /\ execCalls' = execCalls + 1
                /\ sentSql' = checked.sql
                /\ \E df \in {"error", "empty", "rows"} :
                      /\ whFails' = IF df = "error" THEN whFails + 1 ELSE whFails
                      /\ AfterRun(df)
    /\ UNCHANGED <<guardVars, cacheVars, vizVars, today, anchor, intent, dateCtx, cleanSql,
                   safeSql, finalSql, genCalls, genValid, hasHistory, resolution,
                   finalMsg, intentMsg, promptMsg, vizMsg, intentFault, lastGen,
                   vizFailed, auditFaulty, fault>>

\* what VisualizationAgent.determine_format can meet: nothing ("ok"), a
\* figure that does not render (_execute_plotly_code returns None), or an
\* exception of the generation port it calls without a try
VizOutcomes == {"ok", "render_fail", "port_raise"}

\* STEP 3E: visualization, suggestions and packaging; an exception in any of
\* them is caught by the loop's except Exception
Package ==
    /\ pc = "package"
    /\ vizMsg' = finalMsg
    /\ \E viz \in VizOutcomes :
          /\ vizFailed' = (vizFailed \/ viz # "ok")
          /\ IF viz = "port_raise"
             THEN OnException("packaging_error", cleanSql, 0)
             ELSE InnerFinalize(Response("success", "data", "none", finalSql),
                                cleanSql)
    /\ UNCHANGED <<guardVars, cacheVars, vizVars, today, anchor, intent, dateCtx, cleanSql,
                   safeSql, finalSql, genCalls, genValid, guardCalls, guardIn,
                   guardRaised, execCalls, whFails, sentSql, hasHistory, resolution,
                   finalMsg, intentMsg, promptMsg, intentFault, lastGen, auditFaulty,
                   fault>>

Next ==
    \/ Receive
    \/ Classify
    \/ PrepareContext
    \/ Generate
    \/ GatePass
    \/ GateReject
    \/ Replace
    \/ Execute
    \/ Package

Spec == Init /\ [][Next]_vars

\* run_pipeline with an audit store that may fail
SpecAudit == InitAudit /\ [][Next]_vars

----------------------------------------------------------------------------
(* get_latest_ds called by two requests over the one cache *)

InitCache ==
    /\ GuardIdle
    /\ PipeRestIdle
    /\ today \in Days
    /\ anchor \in {today - lag : lag \in 0..MaxLag}
    /\ CacheIdle
    /\ VizIdle

\* a request calls get_latest_ds
Call(r) ==
    /\ cReq[r].pc \in {"idle", "done"}
    /\ cReq' = [cReq EXCEPT ![r] = [NoCall EXCEPT !.pc = "get"]]
    /\ UNCHANGED <<cNow, cStore>>

\* cache.get, under the lock: data = self._store.get(key); None when absent
CacheRead(r) ==
    /\ cReq[r].pc = "get"
    /\ cReq' = [cReq EXCEPT ![r].data = cStore,
                            ![r].pc = IF cStore.present THEN "check" ELSE "probe"]
    /\ UNCHANGED <<cNow, cStore>>

\* cache.get, after the lock: an expired pair is popped and None returned,
\* else the value is returned and get_latest_ds returns it
CacheCheck(r) ==
    /\ cReq[r].pc = "check"
    /\ IF Expired(cReq[r].data, cNow)
       THEN /\ cStore' = NoEntry
            /\ cReq' = [cReq EXCEPT ![r].pc = "probe"]
       ELSE /\ cReq' = [cReq EXCEPT ![r].pc = "done",
                                    ![r].ret = cReq[r].data.value,
                                    ![r].how = "hit"]
            /\ UNCHANGED cStore
    /\ UNCHANGED cNow

\* await asyncio.to_thread(_fetch_ds_from_db): MAX(ds) as text, or None when
\* the query raises or returns no row
Probe(r) ==
    /\ cReq[r].pc = "probe"
    /\ \E ok \in BOOLEAN :
          cReq' = [cReq EXCEPT ![r].pc = "resume",
                               ![r].probes = @ + 1,
                               ![r].newDs = IF ok THEN ProbeValue(anchor) ELSE NoDs]
    /\ UNCHANGED <<cNow, cStore>>

\* variant of Resume: the fallback is cached like a probed value
Resume_CacheFallback(r) ==
    /\ cReq[r].pc = "resume"
    /\ LET v == IF cReq[r].newDs.src = "probe" THEN cReq[r].newDs ELSE Fallback(today)
       IN  /\ cStore' = CacheSet(v, CacheTtl, cNow)
           /\ cReq' = [cReq EXCEPT ![r].pc = "done", ![r].ret = v,
                                   ![r].how = IF v.src = "probe" THEN "probe"
                                              ELSE "fallback"]
    /\ UNCHANGED cNow

\* the coroutine resumes: a probed value is cached and returned, else
\* yesterday by the wall clock is returned
Resume(r) ==
    /\ cReq[r].pc = "resume"
    /\ IF cReq[r].newDs.src = "probe"
       THEN /\ cStore' = CacheSet(cReq[r].newDs, CacheTtl, cNow)
            /\ cReq' = [cReq EXCEPT ![r].pc = "done",
                                    ![r].ret = cReq[r].newDs,
                                    ![r].how = "probe"]
       ELSE /\ cReq' = [cReq EXCEPT ![r].pc = "done",
                                    ![r].ret = Fallback(today),
                                    ![r].how = "fallback"]
            /\ UNCHANGED cStore
    /\ UNCHANGED cNow

\* time.time() advances
Tick ==
    /\ cNow + TickStep <= MaxTime
    /\ cNow' = cNow + TickStep
    /\ UNCHANGED <<cStore, cReq>>

NextCache ==
    \/ \E r \in Requests : Call(r)
    \/ \E r \in Requests : CacheRead(r)
    \/ \E r \in Requests : CacheCheck(r)
    \/ \E r \in Requests : Probe(r)
    \/ \E r \in Requests : Resume(r)
    \/ Tick

SpecCache ==
    InitCache /\ [][NextCache /\ UNCHANGED <<guardVars, pipeVars, reqVars, vizVars>>]_vars

----------------------------------------------------------------------------
(* run_pipeline STEP 3E on its own *)

InitViz ==
    /\ GuardIdle
    /\ PipeIdle
    /\ CacheIdle
    /\ vIn \in VizInputs
    /\ vStage = "input"
    /\ vRes = NoVizResult
    /\ vData = NoRows

\* STEP 3E of run_pipeline on its own: determine_format, then the rows of
\* the response; an exception of determine_format leaves no response
PackageRows ==
    /\ vStage = "input"
    /\ vRes' = DetermineFormat(vIn)
    /\ IF DetermineFormat(vIn).raised
       THEN vStage' = "raised" /\ vData' = NoRows
       ELSE /\ vStage' = "success"
            /\ vData' = HeadRows(vIn.frame.rows, RowCap(DetermineFormat(vIn).visual))
    /\ UNCHANGED <<vIn, guardVars, pipeVars, reqVars, cacheVars>>

NextViz == PackageRows

SpecViz == InitViz /\ [][NextViz]_vars

----------------------------------------------------------------------------
(* Properties of the guard *)

\* the statement is a read query with nothing smuggled in
PlainRead(sql) == sql.kind = "select" /\ sql.rest = "none" /\ sql.cte = "none"

\* the text carries an administrative/DDL/DML statement somewhere
HasWrite(sql) ==
    \/ sql.kind \in {"insert", "command"}
    \/ sql.rest = "drop"
    \/ sql.cte \in {"delete", "command"}

AppliesBetweenToDs(where) ==
    \E i \in 1..Len(where) : where[i].col = "ds" /\ where[i].op = "between"

ReferencesDs(where) == \E i \in 1..Len(where) : where[i].col = "ds"

\* C4: every SQL text that carries an administrative/DDL/DML statement, at
\* top level, as a second statement, or inside a CTE, is rejected by
\* validate_and_fix.
Claim_C4 == (gStage # "input" /\ HasWrite(gIn)) => ~gRes.ok

Claim_C6 ==
    (gStage # "input" /\ PlainRead(gIn) /\ gIn.table = "dws_all_trades_di") =>
        /\ ~ReferencesDs(gIn.where) => ~gRes.ok
        /\ gIn.where = <<P_ds_between>> => gRes.ok

\* the limit policy as the claim states it, over "groups or aggregates"
GroupsOrAggregates(sql) == sql.group \/ sql.agg # "none"

ClaimedLimit(sql) ==
    IF GroupsOrAggregates(sql) /\ sql.limit # 0 /\ sql.order # "desc" THEN 0
    ELSE IF ~GroupsOrAggregates(sql) /\ sql.limit = 0 THEN 100
    ELSE sql.limit

Thm_C8 == gStage = "twice" => (gRes2.ok /\ gRes2.sql = gRes.sql)

Wit_C8 ==
    /\ gStage = "twice" /\ gRes2.ok
    /\ gIn.group /\ gIn.limit = 10 /\ gRes.sql.limit = 0

----------------------------------------------------------------------------
(* Properties of run_pipeline *)

\* the concrete dates a statement carries
DatesIn(sql) ==
    {sql.where[i].v1.d : i \in {j \in 1..Len(sql.where) :
                                    sql.where[j].v1.k \in {"date", "date_dash"}}}
      \cup
    {sql.where[i].v2.d : i \in {j \in 1..Len(sql.where) :
                                    sql.where[j].v2.k \in {"date", "date_dash"}}}

\* C1: a request whose every generation returned SQL the guard accepts and
\* whose every execution failed in the warehouse ends after exactly
\* 1 + max_retries generations with an error response.
Claim_C1 ==
    (pc = "done" /\ genCalls >= 1 /\ genValid /\ execCalls >= 1
        /\ whFails = execCalls)
    => (genCalls = MaxRetries + 1 /\ response.type = "error")

Thm_C3 ==
    (pc = "done" /\ response.type = "success") =>
        /\ ~guardRaised
        /\ ValidateAndFix(cleanSql).ok
        /\ ValidateAndFix(response.sql).ok

Wit_C3 ==
    /\ pc = "done" /\ response.type = "success" /\ response.msg = "data"
    /\ guardCalls >= 2 /\ cleanSql = Q_trend

\* C9: when the anchor lags the wall clock, no statement sent to the
\* warehouse carries the wall clock's date.
Claim_C9 == (execCalls >= 1 /\ anchor < today) => today \notin DatesIn(sentSql)

\* C10: every validate_and_fix call sees placeholder tokens, never
\* substituted dates.
Claim_C10 == guardIn.by # "none" => DatesIn(guardIn.sql) = {}

----------------------------------------------------------------------------
(* Properties of the cache and get_latest_ds *)

\* the step of a call that leaves the given place
Leaves(r, place) == cReq[r].pc = place /\ cReq'[r].pc # place

\* C11: when the probe fails, get_latest_ds returns yesterday by the wall
\* clock in YYYYMMDD form and leaves the cache as it was; a call that finds
\* the cache empty goes on to probe the warehouse; and the cache never holds
\* a value that came from the clock.
Thm_C11 ==
    [][/\ \A r \in Requests :
             (Leaves(r, "resume") /\ cReq[r].newDs.src # "probe")
             => /\ cReq'[r].pc = "done"
                /\ cReq'[r].ret = [text |-> DayText(today - 1, FALSE), src |-> "clock"]
                /\ Len(cReq'[r].ret.text) = Len(ProbeValue(anchor).text)
                /\ cStore' = cStore
       /\ \A r \in Requests :
             (Leaves(r, "get") /\ ~cStore.present) => cReq'[r].pc = "probe"
       /\ cStore'.present => cStore'.value.src = "probe"]_vars

\* a call fell back while the cache was empty, the cache is still empty, and
\* the other call has probed the warehouse
Wit_C11 ==
    \E r \in Requests : \E q \in Requests \ {r} :
        /\ cReq[r].pc = "done"
        /\ cReq[r].how = "fallback"
        /\ ~cReq[r].data.present
        /\ ~cStore.present
        /\ cReq[q].probes = 1

\* C12: a call that reads a cached pair and finds it unexpired returns the
\* cached value without a probe and leaves the cache alone; a call that finds
\* it expired returns nothing from the cache and goes on to probe; a
\* successful probe stores its value with an expiry 3600 seconds ahead.
Thm_C12 ==
    [][\A r \in Requests :
          /\ (Leaves(r, "get") /\ cStore.present)
             => (cReq'[r].pc = "check" /\ cReq'[r].data = cStore)
          /\ (Leaves(r, "check") /\ cNow <= cReq[r].data.expiry)
             => /\ cReq'[r].pc = "done"
                /\ cReq'[r].ret = cReq[r].data.value
                /\ cReq'[r].probes = 0
                /\ cStore' = cStore
          /\ (Leaves(r, "check") /\ cNow > cReq[r].data.expiry)
             => (cReq'[r].pc = "probe" /\ cReq'[r].ret = NoDs)
          /\ (Leaves(r, "resume") /\ cReq[r].newDs.src = "probe")
             => cStore' = [present |-> TRUE, value |-> cReq[r].newDs,
                           expiry |-> cNow + 3600]]_vars

\* one call was served from the cache; the other read an expired pair,
\* probed again and stored the new value
Wit_C12 ==
    \E r \in Requests : \E q \in Requests \ {r} :
        /\ cReq[r].pc = "done" /\ cReq[r].how = "hit" /\ cReq[r].probes = 0
        /\ cReq[q].pc = "done" /\ cReq[q].how = "probe"
        /\ cReq[q].data.present /\ cReq[q].data.expiry < cNow
        /\ cStore.present

\* C13: when both calls have returned and neither probe failed, both
\* returned a probed key and the cache holds a probed key; no call probes
\* more than once, so two racing calls cost at most one redundant probe.
Thm_C13 ==
    (\A r \in Requests : cReq[r].pc = "done" /\ cReq[r].how # "fallback")
    => /\ \A r \in Requests : cReq[r].ret.src = "probe" /\ cReq[r].probes <= 1
       /\ cStore.present
       /\ cStore.value.src = "probe"

\* both calls missed the empty cache, both probed, both returned
Wit_C13 ==
    /\ cNow = 0
    /\ \A r \in Requests :
          cReq[r].pc = "done" /\ cReq[r].how = "probe" /\ cReq[r].probes = 1
    /\ cStore.present

----------------------------------------------------------------------------
(* Properties of the request's path through run_pipeline *)

\* C14: the step in which the classification call raises or returns text
\* that does not parse yields the intent data_query and moves on to the date
\* context without a response; the date context is followed by generation.
Thm_C14 ==
    [][/\ (pc = "intent" /\ pc' # "intent" /\ intentFault')
          => (intent' = "data_query" /\ pc' = "dates" /\ response' = NoResponse)
       /\ (pc = "dates" /\ pc' # "dates")
          => (pc' = "generate" /\ response' = NoResponse)]_vars

\* the classification failed and SQL generation was invoked
Wit_C14 == intentFault /\ intent = "data_query" /\ genCalls >= 1

\* C15: generation is invoked only if the classified intent is data_query;
\* for general_chat or ambiguous the request ends with a text response and no
\* generation, guard or warehouse call.
Claim_C15 ==
    /\ genCalls >= 1 => intent = "data_query"
    /\ intent \in {"general_chat", "ambiguous"}
       => /\ pc = "done"
          /\ response.type = "text"
          /\ genCalls = 0 /\ guardCalls = 0 /\ execCalls = 0

\* C15, amended: generation is invoked only if the classified intent is
\* neither general_chat nor ambiguous; for general_chat or ambiguous the
\* request ends with a text response and no generation, guard or warehouse
\* call.
Thm_C15 ==
    /\ genCalls >= 1 => intent \notin {"none", "general_chat", "ambiguous"}
    /\ intent \in {"general_chat", "ambiguous"}
       => /\ pc = "done"
          /\ response.type = "text"
          /\ genCalls = 0 /\ guardCalls = 0 /\ execCalls = 0

\* generation was invoked for a request classified with another label
Wit_C15 == intent = "trend" /\ genCalls >= 1 /\ pc = "done"

\* the generation port returned text that does not open with SELECT or WITH
TextOutput(gen) ==
    \/ gen.tag = "prose"
    \/ gen.tag = "sql" /\ gen.sql.kind \notin {"select", "malformed"}

\* C16: the generation step whose cleaned output does not open with SELECT
\* or WITH ends the request in that step with a text response carrying the
\* output; the guard, the warehouse and the attempt counter are untouched.
Thm_C16 ==
    [][(genCalls' = genCalls + 1 /\ TextOutput(lastGen'))
       => /\ pc' = "done"
          /\ response' = Response("text", "generated_text", "none", lastGen'.sql)
          /\ guardCalls' = guardCalls
          /\ execCalls' = execCalls
          /\ attempts' = attempts]_vars

\* a retry attempt returned a non-query statement as text
Wit_C16 ==
    /\ pc = "done"
    /\ response = Response("text", "generated_text", "none", Q_insert)
    /\ lastGen.sql = Q_insert
    /\ attempts = 1
    /\ genCalls = 2

\* the resolver's reply is an object with a confidence above the threshold
\* and a rewritten query
ConfidentRewrite(out) ==
    out.shape = "dict" /\ out.hasConf /\ out.conf > 6 /\ out.rq = "rewritten"

\* C17: with history, once STEP 0 is over: a confident rewrite is the message
\* used for classification, prompt and visualization; any other reply, and
\* any failure of the resolver, leaves the raw message in use and the
\* request running.
Claim_C17 ==
    (pc # "start" /\ hasHistory)
    => /\ finalMsg = (IF ConfidentRewrite(resolution) THEN "rewritten" ELSE "raw")
       /\ response # Raised
       /\ intentMsg \in {"none", finalMsg}
       /\ promptMsg \in {"none", finalMsg}
       /\ vizMsg \in {"none", finalMsg}

\* C18: a failure of visualization selection after a successful execution
\* ends the request with a success response for that query, without another
\* generation.
Claim_C18 ==
    vizFailed => (pc = "done" /\ response = Response("success", "data", "none", finalSql))

\* C19: a request during which an audit commit failed ends with the response
\* of a request whose commits succeeded: no exception, no internal error, no
\* retry caused by the commit.
Claim_C19 ==
    (pc = "done" /\ auditFails >= 1)
    => (response # Raised /\ response # InternalError /\ lastError # "commit_error")

\* C20: no exception leaves run_pipeline, and a request that met an
\* unexpected exception ends with the generic internal error.
Claim_C20 ==
    pc = "done"
    => /\ response # Raised
       /\ (fault # "none" \/ auditFails >= 1) => response = InternalError

----------------------------------------------------------------------------
(* Further properties of the guard *)

\* C28: on a table classified snapshot, validate_and_fix gives the snapshot
\* reason only to a where-clause that applies BETWEEN to ds; ds pinned to one
\* value with BETWEEN on the time column is accepted.
Claim_C28 ==
    (gStage # "input" /\ PlainRead(gIn) /\ CubeKind(gIn.table) = "df"
        /\ gRes.reason = "snapshot_between")
    => AppliesBetweenToDs(gIn.where)

\* C29: every accepted statement whose outermost SELECT has no aggregate
\* function and no GROUP BY carries a LIMIT, also when an aggregate appears
\* only inside a subquery or CTE.
Claim_C29 ==
    (gStage # "input" /\ gRes.ok /\ ~gIn.group /\ gIn.agg # "outer")
    => gRes.sql.limit # 0

----------------------------------------------------------------------------
(* Further properties of the cache *)

\* C30: the second locked section of a get never returns a value whose
\* expiry has passed and never removes an entry whose expiry has not passed:
\* an entry set while the get was in progress on an expired one stays.
Claim_C30 ==
    [][\A r \in Requests :
          Leaves(r, "check")
          => /\ cReq'[r].pc = "done" => cNow <= cReq[r].data.expiry
             /\ (cStore.present /\ cNow <= cStore.expiry) => cStore' = cStore]_vars

----------------------------------------------------------------------------
(* Properties of the responses, the session and the retry loop *)

\* C21: every response is a success carrying sql, data and visual_type, or
\* a text or error carrying a message and none of sql, data, visual_type.
Claim_C21 ==
    (pc = "done" /\ response # Raised)
    => /\ response.type \in {"success", "text", "error"}
       /\ response.type = "success"
          => {"sql", "data", "visual_type"} \subseteq response.keys
       /\ response.type \in {"text", "error"}
          => /\ "message" \in response.keys
             /\ response.keys \cap {"sql", "data", "visual_type"} = {}

\* C25: when the request is over, by a return or by an exception, the
\* orchestrator's session is closed.
Claim_C25 == pc = "done" => ~sessionOpen

\* the steps of one attempt, in their order
LoopStages == <<"generate", "gate", "replace", "execute", "package">>

InLoop(place) == \E i \in 1..Len(LoopStages) : LoopStages[i] = place

StageOf(place) == CHOOSE i \in 1..Len(LoopStages) : LoopStages[i] = place

\* how far the loop has come: failed attempts first, then the step within
\* the attempt
Progress(att, place) == att * (Len(LoopStages) + 1) + StageOf(place)

\* the step of the loop the request is at can be taken
CanStep ==
    CASE pc = "generate" -> ENABLED Generate
      [] pc = "gate" -> ENABLED (GatePass \/ GateReject)
      [] pc = "replace" -> ENABLED Replace
      [] pc = "execute" -> ENABLED Execute
      [] pc = "package" -> ENABLED Package
      [] OTHER -> FALSE

\* C26: at most 1 + max_retries generations; the attempt counter never
\* exceeds max_retries + 1; a generation starts only when every earlier one
\* has been counted as failed; and the loop ends with a response: in the
\* loop a step is always possible, and every step either returns a response
\* or moves on within a bounded count of attempts and steps.
Thm_C26 ==
    /\ [](InLoop(pc) => (CanStep /\ attempts <= MaxRetries))
    /\ [][/\ genCalls' <= MaxRetries + 1
          /\ attempts' <= MaxRetries + 1
          /\ genCalls' # genCalls => (genCalls' = genCalls + 1 /\ attempts = genCalls)
          /\ InLoop(pc)
             => \/ pc' = "done" /\ response'.type \in {"success", "text", "error"}
                \/ InLoop(pc') /\ Progress(attempts', pc') > Progress(attempts, pc)]_vars

\* the third generation failed and the request ended with the error
Wit_C26 ==
    /\ pc = "done"
    /\ genCalls = MaxRetries + 1
    /\ attempts = MaxRetries + 1
    /\ response.type = "error"
    /\ response.msg = "kept_failing"

\* the error a failing step hands to the loop's handler
StepError ==
    IF pc = "package" THEN "packaging_error"
    ELSE IF lastGen'.tag = "raise" THEN "generation_error"
    ELSE "intermediate_sql"

\* C27: the step that fails an attempt with retries left builds a prompt
\* from the error of that step and the SQL generated in that attempt, or
\* from the marker NO_SQL_GENERATED when the attempt generated none.
Thm_C27 ==
    [][(attempts' = attempts + 1 /\ pc' = "generate")
       => /\ prompt'.kind = "retry"
          /\ prompt'.error = StepError
          /\ prompt'.failed = IF lastGen'.tag = "sql" THEN lastGen'.sql
                              ELSE NoSqlGenerated
          /\ prompt'.failed # NoSql]_vars

\* the first attempt executed its SQL and failed later; the second attempt
\* generated nothing, and its prompt for the third carries the marker
Wit_C27 ==
    /\ pc = "generate"
    /\ attempts = 2
    /\ execCalls = 1
    /\ prompt = RetryPrompt(NoSqlGenerated, "generation_error")

----------------------------------------------------------------------------
(* Properties of the visualization and of the rows of a success response *)

\* a result of more than one row and exactly two columns, one date-like and
\* one numeric
DateAndNumber(frame) == frame.rows > 1 /\ frame.dates = 1 /\ frame.nums = 1 /\ frame.others = 0

\* determine_format returned a chart it built itself: plotly, no call of the
\* generation port, x values in ascending date order
BuiltChart(res) ==
    /\ ~res.raised
    /\ res.visual = "plotly"
    /\ res.portCalls = 0
    /\ res.xOrder = "ascending"

\* C22 as stated: for every multi-row result of one date-like and one numeric
\* column, whatever the SQL text, the question and the intent,
\* determine_format returns plotly without a call of the generation port and
\* with x values in ascending date order
Claim_C22 == (vStage # "input" /\ DateAndNumber(vIn.frame)) => BuiltChart(vRes)

\* C22 amended: for a multi-row result of one date-like and one numeric
\* column, determine_format returns plotly without a call of the generation
\* port and with ascending x values exactly when the intent is trend or the
\* SQL text shows grouping or an aggregate, and neither the intent nor the
\* question names a funnel
Thm_C22 ==
    (vStage # "input" /\ DateAndNumber(vIn.frame))
        => (BuiltChart(vRes)
              <=> /\ vIn.intent = "trend" \/ vIn.aggregates
                  /\ vIn.intent # "funnel"
                  /\ ~vIn.funnelWord)

Wit_C22 ==
    /\ vStage = "success"
    /\ DateAndNumber(vIn.frame)
    /\ vIn.frame.rows = 101
    /\ vIn.intent = "data_query"
    /\ vIn.aggregates
    /\ vIn.port = "raise"
    /\ vRes.chart = "deterministic"

\* C23: for every result of exactly one row and at most two columns,
\* determine_format returns table and makes no call of the generation port,
\* whatever the column types, the question and the intent
Claim_C23 ==
    (vStage # "input" /\ vIn.frame.rows = 1 /\ ColCount(vIn.frame) <= 2)
        => (~vRes.raised /\ vRes.visual = "table" /\ vRes.portCalls = 0)

\* C24: the rows of a success response are the rows of the executed result
\* from the first on, in their order, at most 100 of them when the visual
\* type is table and at most 5000 when it is plotly
Thm_C24 ==
    vStage = "success"
        => /\ vData.from = 1
           /\ vData.to <= vIn.frame.rows
           /\ vRes.visual \in {"table", "plotly"}
           /\ vRes.visual = "table" => vData.to <= TableCap
           /\ vRes.visual = "plotly" => vData.to <= ChartCap

Wit_C24 ==
    /\ vStage = "success"
    /\ vIn.frame.rows = 5001
    /\ vRes.visual = "plotly"
    /\ vData = [from |-> 1, to |-> 5000]

====
